---- MODULE Spec2Model ----
(***************************************************************************)
(* State-machine model of src/js/popup-system.js: the shared backdrop,     *)
(* the Sequential Presenter (SequencePopups), the Triggered Queue          *)
(* (SystemPopups), the Document Viewer and the Paged Gallery.              *)
(*                                                                         *)
(* The browser runs one handler at a time, so every action below is one    *)
(* whole handler run: an event dispatch with all the listeners it reaches, *)
(* one timer callback, or one call of the public API.  The handlers are    *)
(* written as operators from a world record (all program variables) to a   *)
(* world record, composed in the order the source calls them.              *)
(***************************************************************************)
EXTENDS Integers, Sequences, FiniteSets, TLC

VARIABLES
    backdrop,      \* the #popup-backdrop element
    bodyOverflow,  \* document.body.style.overflow
    seq,           \* SequencePopups
    sys,           \* SystemPopups, its markers and its popup elements
    dv,            \* DocumentViewer
    gal,           \* ImageGallery
    timers,        \* pending setTimeout / requestAnimationFrame callbacks
    prefs,         \* the Preference Store: root attributes, localStorage
    hist           \* history (ghost): logs of what was enqueued, shown, called

vars == <<backdrop, bodyOverflow, seq, sys, dv, gal, timers, prefs, hist>>

----------------------------------------------------------------------------
(* Bounds of the model *)

NumMarkers == 3      \* [data-system-popup] elements of the page
MaxTimers == 2       \* pending timer callbacks
MaxResets == 1       \* calls of SystemPopups.reset
MaxItems == 2        \* items of one sequence
MaxStarts == 3       \* calls of sequence.start
MaxOnce == 2         \* once-listeners DocumentViewer has on the backdrop
MaxImages == 3       \* images of one gallery

Markers == 1..NumMarkers

Keys == {"Escape", "Enter", " ", "ArrowLeft", "ArrowRight", "a"}

----------------------------------------------------------------------------
(* The world record *)

World ==
    [backdrop |-> backdrop, bodyOverflow |-> bodyOverflow, seq |-> seq,
     sys |-> sys, dv |-> dv, gal |-> gal, timers |-> timers, prefs |-> prefs,
     hist |-> hist,
     fx |-> <<>>]

Effect(e, a) == [e |-> e, a |-> a]

emit(w, e, a) == [w EXCEPT !.fx = Append(@, Effect(e, a))]

\* The field fx lists the observable effects of one handler run (calls of the
\* backdrop functions, renders, callbacks); it is not part of the state.
Commit(w) ==
    /\ backdrop' = w.backdrop
    /\ bodyOverflow' = w.bodyOverflow
    /\ seq' = w.seq
    /\ sys' = w.sys
    /\ dv' = w.dv
    /\ gal' = w.gal
    /\ timers' = w.timers
    /\ prefs' = w.prefs
    /\ hist' = w.hist

----------------------------------------------------------------------------
(* Timers.  setTimeout callbacks are never cancelled.  Callbacks with the  *)
(* same delay run in the order they were scheduled; a callback scheduled   *)
(* later with a shorter delay may run before an earlier one with a longer  *)
(* delay, depending on when the two were scheduled.                        *)

ExitDelay == 300
NextDelay == 200

Delay(kind) ==
    CASE kind = "sysNext" -> NextDelay
      [] kind = "galFrame" -> 0   \* requestAnimationFrame: the next frame
      [] OTHER -> ExitDelay

setTimeout(w, kind) == [w EXCEPT !.timers = Append(@, kind)]

RemoveAt(s, i) == SubSeq(s, 1, i - 1) \o SubSeq(s, i + 1, Len(s))

CanFire(i) == \A j \in 1..(i - 1) : Delay(timers[j]) > Delay(timers[i])

NoContent == [index |-> -1, body |-> "", hint |-> ""]

----------------------------------------------------------------------------
(* Shared utilities *)

getOrCreateBackdrop(w) == [w EXCEPT !.backdrop.exists = TRUE]

showBackdrop(w) ==
    LET w1 == getOrCreateBackdrop(w)
    IN  emit([w1 EXCEPT !.backdrop.visible = TRUE, !.bodyOverflow = "hidden"],
             "showBackdrop", 0)

\* Mutant: the backdrop stays while an overlay that showed it is still open.
hideBackdrop_counted(w) ==
    LET w1 == getOrCreateBackdrop(w)
    IN  IF w.dv.isOpen \/ w.seq.isActive
        THEN emit(w1, "hideBackdrop", 0)
        ELSE emit([w1 EXCEPT !.backdrop.visible = FALSE, !.bodyOverflow = ""],
                  "hideBackdrop", 0)

hideBackdrop(w) ==
    LET w1 == getOrCreateBackdrop(w)
    IN  emit([w1 EXCEPT !.backdrop.visible = FALSE, !.bodyOverflow = ""],
             "hideBackdrop", 0)

----------------------------------------------------------------------------
(* SCENARIO B: SystemPopups *)

\* The data attributes of the markers of the page.
MarkerData(m) ==
    CASE m = 1 -> [image |-> "a.png", html |-> "", glitch |-> FALSE]
      [] m = 2 -> [image |-> "", html |-> "<p>b</p>", glitch |-> TRUE]
      [] m = 3 -> [image |-> "c.png", html |-> "<p>c</p>", glitch |-> FALSE]
      [] OTHER -> [image |-> "", html |-> "", glitch |-> TRUE]

\* The descriptor pushed for a marker; tagged with the marker so that the
\* logs can tell descriptors of different markers apart.
Descriptor(m) ==
    [from |-> m, image |-> MarkerData(m).image, html |-> MarkerData(m).html,
     glitch |-> MarkerData(m).glitch]

PopupIds(w) == {w.sys.page[i].id : i \in 1..Len(w.sys.page)}

\* Identity of a newly created element: any identity not in use.
NewId(w) == CHOOSE n \in 1..(Len(w.sys.page) + 1) : n \notin PopupIds(w)

PopupContent(popupData) ==
    IF popupData.image # "" THEN "img:" \o popupData.image
    ELSE IF popupData.html # "" THEN "html:" \o popupData.html
    ELSE ""

\* Mutant: takes the newest descriptor instead of the oldest.
SystemPopups_showNextPopup_newest(w) ==
    IF w.sys.queue = <<>>
    THEN [w EXCEPT !.sys.isShowingPopup = FALSE]
    ELSE LET popupData == w.sys.queue[Len(w.sys.queue)]
             el == [id |-> NewId(w), from |-> popupData.from,
                    content |-> PopupContent(popupData),
                    glitch |-> popupData.glitch, visible |-> TRUE]
             w1 == [w EXCEPT !.sys.isShowingPopup = TRUE,
                             !.sys.queue = SubSeq(@, 1, Len(@) - 1),
                             !.sys.currentPopup = el.id,
                             !.sys.page = Append(@, el),
                             !.hist.shown = Append(@, popupData.from)]
         IN  showBackdrop(emit(w1, "sysShow", popupData.from))

SystemPopups_showNextPopup(w) ==
    IF w.sys.queue = <<>>
    THEN [w EXCEPT !.sys.isShowingPopup = FALSE]
    ELSE LET popupData == Head(w.sys.queue)
             el == [id |-> NewId(w), from |-> popupData.from,
                    content |-> PopupContent(popupData),
                    glitch |-> popupData.glitch, visible |-> TRUE]
             w1 == [w EXCEPT !.sys.isShowingPopup = TRUE,
                             !.sys.queue = Tail(@),
                             !.sys.currentPopup = el.id,
                             !.sys.page = Append(@, el),
                             !.hist.shown = Append(@, popupData.from)]
         IN  showBackdrop(emit(w1, "sysShow", popupData.from))

SetVisible(page, id, v) ==
    [i \in 1..Len(page) |->
        IF page[i].id = id THEN [page[i] EXCEPT !.visible = v] ELSE page[i]]

SystemPopups_closeCurrentPopup(w) ==
    IF w.sys.currentPopup = 0 THEN w
    ELSE LET w1 == [w EXCEPT !.sys.page = SetVisible(@, w.sys.currentPopup, FALSE)]
         IN  setTimeout(hideBackdrop(w1), "sysExit")

\* The callback of closeCurrentPopup's 300 ms timer.
SystemPopups_exitTimer(w) ==
    LET w1 == IF w.sys.currentPopup # 0
              THEN [w EXCEPT !.sys.page = SelectSeq(@, LAMBDA el : el.id # w.sys.currentPopup),
                             !.sys.currentPopup = 0]
              ELSE w
    IN  setTimeout(w1, "sysNext")

\* Mutant: the descriptor is put at the front of the queue.
SystemPopups_handleEntry_prepending(w, entry) ==
    IF ~entry.isIntersecting THEN w
    ELSE LET m == entry.target IN
         IF w.sys.triggers[m].popupTriggered THEN [w EXCEPT !.hist.ignored = TRUE]
         ELSE LET w1 == [w EXCEPT !.sys.triggers[m].popupTriggered = TRUE,
                                  !.sys.queue = <<Descriptor(m)>> \o @,
                                  !.hist.enq = Append(@, m)]
                  w2 == IF ~w1.sys.isShowingPopup
                        THEN SystemPopups_showNextPopup(w1) ELSE w1
              IN  [w2 EXCEPT !.sys.triggers[m].observed = FALSE]

\* Mutant: the popupTriggered guard is missing.
SystemPopups_handleEntry_unguarded(w, entry) ==
    IF ~entry.isIntersecting THEN w
    ELSE LET m == entry.target
             w1 == [w EXCEPT !.sys.triggers[m].popupTriggered = TRUE,
                             !.sys.queue = Append(@, Descriptor(m)),
                             !.hist.enq = Append(@, m)]
             w2 == IF ~w1.sys.isShowingPopup
                   THEN SystemPopups_showNextPopup(w1) ELSE w1
         IN  [w2 EXCEPT !.sys.triggers[m].observed = FALSE]

SystemPopups_handleEntry(w, entry) ==
    IF ~entry.isIntersecting THEN w
    ELSE LET m == entry.target IN
         IF w.sys.triggers[m].popupTriggered THEN [w EXCEPT !.hist.ignored = TRUE]
         ELSE LET w1 == [w EXCEPT !.sys.triggers[m].popupTriggered = TRUE,
                                  !.sys.queue = Append(@, Descriptor(m)),
                                  !.hist.enq = Append(@, m)]
                  w2 == IF ~w1.sys.isShowingPopup
                        THEN SystemPopups_showNextPopup(w1) ELSE w1
              IN  [w2 EXCEPT !.sys.triggers[m].observed = FALSE]

RECURSIVE SystemPopups_handleIntersection(_, _)
SystemPopups_handleIntersection(w, entries) ==
    IF entries = <<>> THEN w
    ELSE SystemPopups_handleIntersection(
             SystemPopups_handleEntry(w, Head(entries)), Tail(entries))

\* The document click listener bound by SystemPopups.bindEvents.
SystemPopups_onClick(w) ==
    IF w.sys.bound /\ w.sys.isShowingPopup /\ w.sys.currentPopup # 0
    THEN SystemPopups_closeCurrentPopup(w) ELSE w

\* The document keydown listener bound by SystemPopups.bindEvents.
SystemPopups_onKeydown(w, key) ==
    IF w.sys.bound /\ w.sys.isShowingPopup /\ key \in {"Escape", "Enter", " "}
    THEN SystemPopups_closeCurrentPopup(emit(w, "preventDefault", 0)) ELSE w

\* Mutant: reset also cancels the popup being presented.
SystemPopups_reset_cancelling(w) ==
    [w EXCEPT !.sys.triggers = [m \in Markers |-> [popupTriggered |-> FALSE, observed |-> TRUE]],
              !.sys.queue = <<>>,
              !.sys.page = SelectSeq(@, LAMBDA el : el.id # w.sys.currentPopup),
              !.sys.currentPopup = 0,
              !.sys.isShowingPopup = FALSE,
              !.hist.enq = <<>>, !.hist.shown = <<>>, !.hist.dismissals = 0,
              !.hist.resets = @ + 1]

SystemPopups_reset(w) ==
    [w EXCEPT !.sys.triggers = [m \in Markers |-> [popupTriggered |-> FALSE, observed |-> TRUE]],
              !.sys.queue = <<>>,
              !.hist.enq = <<>>, !.hist.shown = <<>>, !.hist.dismissals = 0,
              !.hist.resets = @ + 1]

----------------------------------------------------------------------------
(* SCENARIO A: SequencePopups *)

\* The items of a sequence of n items: images and markup alternate.
ItemsOf(n) ==
    [i \in 1..n |-> IF i % 2 = 1 THEN [type |-> "image", content |-> "page.png"]
                    ELSE [type |-> "html", content |-> "<p>text</p>"]]

SequencePopups_createContainer(w) ==
    \* the element with id sequence-popup, if any, is removed; a new one is appended
    [w EXCEPT !.seq.container =
        [created |-> TRUE, inDom |-> TRUE, visible |-> FALSE, content |-> NoContent]]

SequencePopups_bindEvents(w) ==
    \* two new closures replace this._handleClick / this._handleKeydown and
    \* are added to the document; closures added earlier stay registered
    [w EXCEPT !.seq.handlers = @ + 1, !.seq.handlerBound = TRUE]

SequencePopups_unbindEvents(w) ==
    \* removes the closures this._handleClick / this._handleKeydown refer to
    IF w.seq.handlerBound
    THEN [w EXCEPT !.seq.handlers = @ - 1, !.seq.handlerBound = FALSE]
    ELSE w

\* The callback of complete's 300 ms timer.
SequencePopups_completeTimer(w) ==
    LET w1 == SequencePopups_unbindEvents([w EXCEPT !.seq.container.inDom = FALSE])
    IN  IF w1.seq.onComplete # 0
        THEN emit([w1 EXCEPT !.hist.calls[w1.seq.onComplete] = @ + 1],
                  "onComplete", w1.seq.onComplete)
        ELSE w1

SequencePopups_complete(w) ==
    setTimeout(
        hideBackdrop([w EXCEPT !.seq.isActive = FALSE,
                               !.seq.container.visible = FALSE]),
        "seqDone")

SequencePopups_showCurrentPopup(w) ==
    LET i == w.seq.currentIndex      \* 0-based, as in the source
        n == Len(w.seq.items)
    IN  IF i >= n THEN SequencePopups_complete(w)
        ELSE LET item == w.seq.items[i + 1]
                 body == IF item.type = "image" THEN "img:" \o item.content
                         ELSE IF item.type = "html" THEN item.content
                         ELSE ""
                 hint == IF i < n - 1 THEN "Click to continue..."
                         ELSE "Click to begin reading..."
             IN  emit([w EXCEPT !.seq.container.content =
                                    [index |-> i, body |-> body, hint |-> hint],
                                !.seq.container.visible = TRUE,
                                !.hist.renders = Append(@, i)],
                      "render", i)

SequencePopups_next(w) ==
    setTimeout([w EXCEPT !.seq.container.visible = FALSE], "seqNext")

\* Mutant: the index is not incremented.
SequencePopups_nextTimer_repeating(w) ==
    IF w.seq.currentIndex < Len(w.seq.items)
    THEN SequencePopups_showCurrentPopup(w)
    ELSE SequencePopups_complete(w)

\* The callback of next's 300 ms timer.
SequencePopups_nextTimer(w) ==
    LET w1 == [w EXCEPT !.seq.currentIndex = @ + 1]
    IN  IF w1.seq.currentIndex < Len(w1.seq.items)
        THEN SequencePopups_showCurrentPopup(w1)
        ELSE SequencePopups_complete(w1)

SequencePopups_init(w, items, onComplete) ==
    LET w1 == [w EXCEPT !.seq.items = items, !.seq.currentIndex = 0,
                        !.seq.onComplete = onComplete, !.seq.isActive = TRUE]
    IN  SequencePopups_bindEvents(
            SequencePopups_showCurrentPopup(
                showBackdrop(SequencePopups_createContainer(w1))))

\* Mutant: the click closure does not test isActive.
SequencePopups_handleClick_always(w) == SequencePopups_next(w)

\* One of the click closures added by bindEvents.
SequencePopups_handleClick(w) ==
    IF w.seq.isActive THEN SequencePopups_next(w) ELSE w

\* One of the keydown closures added by bindEvents.
SequencePopups_handleKeydown(w, key) ==
    IF w.seq.isActive /\ key \in {"Enter", " ", "Escape"}
    THEN SequencePopups_next(emit(w, "preventDefault", 0)) ELSE w

\* All the closures SequencePopups has on the document, in turn.
RECURSIVE SequencePopups_clickListeners(_, _)
SequencePopups_clickListeners(w, k) ==
    IF k = 0 THEN w
    ELSE SequencePopups_clickListeners(SequencePopups_handleClick(w), k - 1)

RECURSIVE SequencePopups_keydownListeners(_, _, _)
SequencePopups_keydownListeners(w, key, k) ==
    IF k = 0 THEN w
    ELSE SequencePopups_keydownListeners(SequencePopups_handleKeydown(w, key), key, k - 1)

----------------------------------------------------------------------------
(* SCENARIO C: DocumentViewer *)

NoViewer == [present |-> FALSE, visible |-> FALSE, icon |-> "", body |-> "", title |-> ""]

\* Option records page scripts pass to document.open.
Docs ==
    {[type |-> "pdf", src |-> "report.pdf", content |-> "", title |-> "Report"],
     [type |-> "article", src |-> "", content |-> "<p>news</p>", title |-> "News"],
     [type |-> "video", src |-> "clip.png", content |-> "", title |-> "Clip"]}

\* The attachment links of the page: data-type, data-src, href, data-content,
\* data-title and text ("" where the attribute is missing).
Links == {1, 2}

LinkData(l) ==
    IF l = 1
    THEN [type |-> "pdf", src |-> "report.pdf", href |-> "#", content |-> "",
          title |-> "Report", text |-> " open "]
    ELSE [type |-> "", src |-> "", href |-> "photo.png", content |-> "",
          title |-> "", text |-> "Photo"]

Trim(t) == IF t = " open " THEN "open" ELSE t

\* The options the click listener of DocumentViewer.init builds for a link.
LinkOptions(l) ==
    LET d == LinkData(l)
    IN  [type |-> IF d.type # "" THEN d.type ELSE "image",
         src |-> IF d.src # "" THEN d.src ELSE d.href,
         content |-> d.content,
         title |-> IF d.title # "" THEN d.title ELSE Trim(d.text)]

\* Mutant: the existing element is not removed.
DocumentViewer_createContainer_stacking(w, options) ==
    [w EXCEPT !.dv.elements = @ + 1,
              !.dv.container =
                  [present |-> TRUE, visible |-> FALSE, icon |-> "",
                   body |-> IF options.type = "pdf" THEN "iframe:" \o options.src
                            ELSE IF options.type = "article"
                            THEN "article:" \o options.content
                            ELSE "img:" \o options.src,
                   title |-> options.title]]

DocumentViewer_createContainer(w, options) ==
    LET img == "img:" \o options.src
        el == CASE options.type = "pdf" ->
                     [icon |-> "pdf", body |-> "iframe:" \o options.src]
                [] options.type = "image" -> [icon |-> "image", body |-> img]
                [] options.type = "article" ->
                     [icon |-> "article", body |-> "article:" \o options.content]
                [] OTHER -> [icon |-> "", body |-> img]
        existing == w.dv.elements > 0     \* getElementById('document-viewer')
    IN  [w EXCEPT !.dv.elements = (IF existing THEN @ - 1 ELSE @) + 1,
                  !.dv.container =
                      [present |-> TRUE, visible |-> FALSE, icon |-> el.icon,
                       body |-> el.body, title |-> options.title]]

DocumentViewer_open(w, options) ==
    LET w1 == showBackdrop(DocumentViewer_createContainer(w, options))
    IN  [w1 EXCEPT !.backdrop.onceClose = @ + 1,
                   !.dv.container.visible = TRUE,
                   !.dv.isOpen = TRUE]

DocumentViewer_close(w) ==
    IF ~w.dv.container.present THEN w
    ELSE LET w1 == hideBackdrop([w EXCEPT !.dv.container.visible = FALSE])
         IN  setTimeout([w1 EXCEPT !.dv.isOpen = FALSE], "dvExit")

\* Mutant: the timer of a close that a later open has superseded does nothing.
DocumentViewer_closeTimer_cancelled(w) ==
    IF w.dv.container.present /\ ~w.dv.isOpen
    THEN [w EXCEPT !.dv.container = NoViewer, !.dv.elements = @ - 1] ELSE w

\* The callback of close's 300 ms timer.
DocumentViewer_closeTimer(w) ==
    IF w.dv.container.present
    THEN [w EXCEPT !.dv.container = NoViewer, !.dv.elements = @ - 1] ELSE w

\* The document click listener added by DocumentViewer.init; link = 0 when
\* the click is not on (or inside) an attachment link.
DocumentViewer_onClick(w, link) ==
    IF link # 0
    THEN DocumentViewer_open(emit(w, "preventDefault", 0), LinkOptions(link))
    ELSE w

\* The document keydown listener added by DocumentViewer.init.
DocumentViewer_onKeydown(w, key) ==
    IF w.dv.isOpen /\ key = "Escape" THEN DocumentViewer_close(w) ELSE w

\* The {once: true} click listeners open() has left on the backdrop.
RECURSIVE DocumentViewer_backdropListeners(_)
DocumentViewer_backdropListeners(w) ==
    IF w.backdrop.onceClose = 0 THEN w
    ELSE DocumentViewer_backdropListeners(
             DocumentViewer_close([w EXCEPT !.backdrop.onceClose = @ - 1]))

----------------------------------------------------------------------------
(* IMAGE GALLERY VIEWER *)

NoGallery ==
    [present |-> FALSE, visible |-> FALSE, img |-> 0, label |-> 0, of |-> 0,
     title |-> "", active |-> {}, prevDisabled |-> FALSE, nextDisabled |-> FALSE]

\* A handler that throws stops there; what it did before stays done.
throw(w, what) == emit(w, "throw", what)

\* Mutant: the next button is compared with the number of images.
ImageGallery_updateNavState_offByOne(w) ==
    IF ~w.gal.container.present THEN throw(w, "updateNavState")
    ELSE [w EXCEPT !.gal.container.prevDisabled = (w.gal.currentPage = 0),
                   !.gal.container.nextDisabled =
                       (w.gal.currentPage = w.gal.images)]

ImageGallery_updateNavState(w) ==
    IF ~w.gal.container.present THEN throw(w, "updateNavState")
    ELSE [w EXCEPT !.gal.container.prevDisabled = (w.gal.currentPage = 0),
                   !.gal.container.nextDisabled =
                       (w.gal.currentPage = w.gal.images - 1)]

ImageGallery_bindGalleryEvents(w) ==
    [w EXCEPT !.gal.keyHandlers = @ + 1, !.gal.keyHandlerBound = TRUE]

ImageGallery_createGallery(w) ==
    LET w1 == [w EXCEPT !.gal.container =
                   [present |-> TRUE, visible |-> FALSE, img |-> 0, label |-> 1,
                    of |-> w.gal.images, title |-> w.gal.title, active |-> {0},
                    prevDisabled |-> FALSE, nextDisabled |-> FALSE]]
    IN  ImageGallery_updateNavState(ImageGallery_bindGalleryEvents(w1))

\* Mutant: open does not go back to page 0.
ImageGallery_open_keepingPage(w, options) ==
    IF w.gal.isOpen THEN w
    ELSE LET w1 == [w EXCEPT !.gal.images = options.images,
                             !.gal.title = IF options.title # "" THEN options.title
                                           ELSE "Gallery"]
         IN  IF w1.gal.images = 0 THEN emit(w1, "warn", 0)
             ELSE LET w2 == ImageGallery_createGallery(w1)
                  IN  setTimeout([w2 EXCEPT !.gal.isOpen = TRUE,
                                            !.bodyOverflow = "hidden"],
                                 "galFrame")

\* Mutant: open does not check whether the gallery is open.
ImageGallery_open_unguarded(w, options) ==
    LET w1 == [w EXCEPT !.gal.images = options.images,
                        !.gal.title = IF options.title # "" THEN options.title
                                      ELSE "Gallery",
                        !.gal.currentPage = 0]
    IN  IF w1.gal.images = 0 THEN emit(w1, "warn", 0)
        ELSE LET w2 == ImageGallery_createGallery(w1)
             IN  setTimeout([w2 EXCEPT !.gal.isOpen = TRUE,
                                       !.bodyOverflow = "hidden"],
                            "galFrame")

\* options.images is the number of images (0 for an empty or missing list),
\* options.title is "" when missing.
ImageGallery_open(w, options) ==
    IF w.gal.isOpen THEN w
    ELSE LET w1 == [w EXCEPT !.gal.images = options.images,
                             !.gal.title = IF options.title # "" THEN options.title
                                           ELSE "Gallery",
                             !.gal.currentPage = 0]
         IN  IF w1.gal.images = 0 THEN emit(w1, "warn", 0)
             ELSE LET w2 == ImageGallery_createGallery(w1)
                  IN  setTimeout([w2 EXCEPT !.gal.isOpen = TRUE,
                                            !.bodyOverflow = "hidden"],
                                 "galFrame")

\* The requestAnimationFrame callback of open.
ImageGallery_frame(w) ==
    IF ~w.gal.container.present THEN throw(w, "frame")
    ELSE [w EXCEPT !.gal.container.visible = TRUE]

\* Mutant: the range check is missing.
ImageGallery_goToPage_unchecked(w, pageIndex) ==
    LET w1 == [w EXCEPT !.gal.currentPage = pageIndex]
    IN  IF ~w1.gal.container.present THEN throw(w1, "goToPage")
        ELSE ImageGallery_updateNavState(
                 [w1 EXCEPT !.gal.container.img = pageIndex,
                            !.gal.container.label = pageIndex + 1,
                            !.gal.container.active = {pageIndex}])

\* Mutant: the indicators are not updated.
ImageGallery_goToPage_staleDots(w, pageIndex) ==
    IF pageIndex < 0 \/ pageIndex >= w.gal.images THEN w
    ELSE LET w1 == [w EXCEPT !.gal.currentPage = pageIndex]
         IN  IF ~w1.gal.container.present THEN throw(w1, "goToPage")
             ELSE ImageGallery_updateNavState(
                      [w1 EXCEPT !.gal.container.img = pageIndex,
                                 !.gal.container.label = pageIndex + 1])

ImageGallery_goToPage(w, pageIndex) ==
    IF pageIndex < 0 \/ pageIndex >= w.gal.images THEN w
    ELSE LET w1 == [w EXCEPT !.gal.currentPage = pageIndex]
         IN  IF ~w1.gal.container.present THEN throw(w1, "goToPage")
             ELSE ImageGallery_updateNavState(
                      [w1 EXCEPT !.gal.container.img = pageIndex,
                                 !.gal.container.label = pageIndex + 1,
                                 !.gal.container.active = {pageIndex}])

ImageGallery_prevPage(w) ==
    IF w.gal.currentPage > 0 THEN ImageGallery_goToPage(w, w.gal.currentPage - 1)
    ELSE w

ImageGallery_nextPage(w) ==
    IF w.gal.currentPage < w.gal.images - 1
    THEN ImageGallery_goToPage(w, w.gal.currentPage + 1)
    ELSE w

ImageGallery_close(w) ==
    IF ~w.gal.isOpen THEN w
    ELSE LET w1 == [w EXCEPT !.gal.isOpen = FALSE, !.bodyOverflow = ""]
             w2 == IF w1.gal.keyHandlerBound
                   THEN [w1 EXCEPT !.gal.keyHandlers = @ - 1,
                                   !.gal.keyHandlerBound = FALSE]
                   ELSE w1
         IN  IF ~w2.gal.container.present THEN throw(w2, "close")
             ELSE setTimeout([w2 EXCEPT !.gal.container.visible = FALSE], "galExit")

\* The callback of close's 300 ms timer.
ImageGallery_closeTimer(w) ==
    IF w.gal.container.present THEN [w EXCEPT !.gal.container = NoGallery] ELSE w

\* One of the keydown closures added by bindGalleryEvents.
ImageGallery_keyHandler(w, key) ==
    IF ~w.gal.isOpen THEN w
    ELSE CASE key = "Escape" -> ImageGallery_close(w)
           [] key = "ArrowLeft" -> ImageGallery_prevPage(w)
           [] key = "ArrowRight" -> ImageGallery_nextPage(w)
           [] OTHER -> w

RECURSIVE ImageGallery_keydownListeners(_, _, _)
ImageGallery_keydownListeners(w, key, k) ==
    IF k = 0 THEN w
    ELSE ImageGallery_keydownListeners(ImageGallery_keyHandler(w, key), key, k - 1)

----------------------------------------------------------------------------
(* SETTINGS: theme and font size *)

THEMES == <<"light", "dark">>

FONT_SIZES == <<"small", "normal", "large", "x-large">>

DEFAULT_THEME == "light"

DEFAULT_FONT_SIZE == "normal"

\* localStorage.getItem / getAttribute return null for a missing entry.
Missing == "<null>"

\* null and the empty string are falsy.
Falsy(v) == v \in {Missing, ""}

includes(list, v) == \E i \in 1..Len(list) : list[i] = v

\* Array.prototype.indexOf: 0-based, -1 when absent.
indexOf(list, v) ==
    IF includes(list, v) THEN (CHOOSE i \in 1..Len(list) : list[i] = v) - 1 ELSE -1

updateThemeButtons(w, theme) == [w EXCEPT !.prefs.themeButton = theme]

updateFontSizeButtons(w, size) == [w EXCEPT !.prefs.sizeButton = size]

\* Mutant: the theme is stored but not applied to the root element.
setTheme_notApplied(w, theme, save) ==
    IF ~includes(THEMES, theme) THEN emit(w, "warn", 0)
    ELSE LET w2 == IF save THEN [w EXCEPT !.prefs.stored.theme = theme] ELSE w
         IN  emit(updateThemeButtons(w2, theme), "themechange", theme)

\* Mutant: the value is not validated.
setTheme_unvalidated(w, theme, save) ==
    LET w1 == [w EXCEPT !.prefs.theme = theme]
        w2 == IF save THEN [w1 EXCEPT !.prefs.stored.theme = theme] ELSE w1
    IN  emit(updateThemeButtons(w2, theme), "themechange", theme)

setTheme(w, theme, save) ==
    IF ~includes(THEMES, theme) THEN emit(w, "warn", 0)
    ELSE LET w1 == [w EXCEPT !.prefs.theme = theme]
             w2 == IF save THEN [w1 EXCEPT !.prefs.stored.theme = theme] ELSE w1
         IN  emit(updateThemeButtons(w2, theme), "themechange", theme)

getTheme(w) == IF Falsy(w.prefs.theme) THEN DEFAULT_THEME ELSE w.prefs.theme

\* Mutant: the toggle compares with the wrong theme.
toggleTheme_stuck(w) ==
    LET currentTheme == getTheme(w)
        newTheme == IF currentTheme = "light" THEN "light" ELSE "dark"
    IN  setTheme(w, newTheme, TRUE)

\* Mutant: the toggle does not save.
toggleTheme_unsaved(w) ==
    LET currentTheme == getTheme(w)
        newTheme == IF currentTheme = "dark" THEN "light" ELSE "dark"
    IN  setTheme(w, newTheme, FALSE)

toggleTheme(w) ==
    LET currentTheme == getTheme(w)
        newTheme == IF currentTheme = "dark" THEN "light" ELSE "dark"
    IN  setTheme(w, newTheme, TRUE)

\* Mutant: the size is saved whatever the save argument says.
setFontSize_alwaysSaving(w, size, save) ==
    IF ~includes(FONT_SIZES, size) THEN emit(w, "warn", 0)
    ELSE LET w1 == [w EXCEPT !.prefs.fontSize = size,
                             !.prefs.stored.fontSize = size]
         IN  emit(updateFontSizeButtons(w1, size), "fontsizechange", size)

setFontSize(w, size, save) ==
    IF ~includes(FONT_SIZES, size) THEN emit(w, "warn", 0)
    ELSE LET w1 == [w EXCEPT !.prefs.fontSize = size]
             w2 == IF save THEN [w1 EXCEPT !.prefs.stored.fontSize = size] ELSE w1
         IN  emit(updateFontSizeButtons(w2, size), "fontsizechange", size)

getFontSize(w) ==
    IF Falsy(w.prefs.fontSize) THEN DEFAULT_FONT_SIZE ELSE w.prefs.fontSize

\* Mutant: the step wraps around at the largest size.
increaseFontSize_wrapping(w) ==
    LET currentIndex == indexOf(FONT_SIZES, getFontSize(w))
    IN  setFontSize(w, FONT_SIZES[((currentIndex + 1) % Len(FONT_SIZES)) + 1], TRUE)

increaseFontSize(w) ==
    LET currentIndex == indexOf(FONT_SIZES, getFontSize(w))
    IN  IF currentIndex < Len(FONT_SIZES) - 1
        THEN setFontSize(w, FONT_SIZES[currentIndex + 2], TRUE)   \* 1-based
        ELSE w

decreaseFontSize(w) ==
    LET currentIndex == indexOf(FONT_SIZES, getFontSize(w))
    IN  IF currentIndex > 0
        THEN setFontSize(w, FONT_SIZES[currentIndex], TRUE)       \* 1-based
        ELSE w

\* Mutant: initialization saves what it applies.
initSettings_saving(w) ==
    LET savedTheme == w.prefs.stored.theme
        w1 == IF ~Falsy(savedTheme) /\ includes(THEMES, savedTheme)
              THEN setTheme(w, savedTheme, TRUE)
              ELSE setTheme(w, IF w.prefs.prefersDark THEN "dark" ELSE "light", TRUE)
        savedFontSize == w1.prefs.stored.fontSize
    IN  IF ~Falsy(savedFontSize) /\ includes(FONT_SIZES, savedFontSize)
        THEN setFontSize(w1, savedFontSize, TRUE)
        ELSE setFontSize(w1, DEFAULT_FONT_SIZE, TRUE)

\* Mutant: whatever is stored is applied, with no fallback.
initSettings_trusting(w) ==
    LET savedTheme == w.prefs.stored.theme
        w1 == IF ~Falsy(savedTheme)
              THEN setTheme(w, savedTheme, FALSE)
              ELSE setTheme(w, IF w.prefs.prefersDark THEN "dark" ELSE "light", FALSE)
        savedFontSize == w1.prefs.stored.fontSize
    IN  IF ~Falsy(savedFontSize)
        THEN setFontSize(w1, savedFontSize, FALSE)
        ELSE setFontSize(w1, DEFAULT_FONT_SIZE, FALSE)

initSettings(w) ==
    LET savedTheme == w.prefs.stored.theme
        w1 == IF ~Falsy(savedTheme) /\ includes(THEMES, savedTheme)
              THEN setTheme(w, savedTheme, FALSE)
              ELSE setTheme(w, IF w.prefs.prefersDark THEN "dark" ELSE "light", FALSE)
        savedFontSize == w1.prefs.stored.fontSize
    IN  IF ~Falsy(savedFontSize) /\ includes(FONT_SIZES, savedFontSize)
        THEN setFontSize(w1, savedFontSize, FALSE)
        ELSE setFontSize(w1, DEFAULT_FONT_SIZE, FALSE)

\* Mutant: the listener follows the system whatever is stored.
onSystemThemeChange_always(w, matches) ==
    setTheme([w EXCEPT !.prefs.prefersDark = matches],
             IF matches THEN "dark" ELSE "light", FALSE)

\* The change listener on matchMedia('(prefers-color-scheme: dark)').
onSystemThemeChange(w, matches) ==
    LET w1 == [w EXCEPT !.prefs.prefersDark = matches]
    IN  IF Falsy(w1.prefs.stored.theme)
        THEN setTheme(w1, IF matches THEN "dark" ELSE "light", FALSE)
        ELSE w1

\* The page before initSettings: no attribute on the root element, the
\* storage and the system preference as the browser has them.
BeforeSettings(storedTheme, storedFontSize, prefersDark) ==
    [theme |-> Missing, fontSize |-> Missing,
     stored |-> [theme |-> storedTheme, fontSize |-> storedFontSize],
     prefersDark |-> prefersDark, themeButton |-> "", sizeButton |-> ""]

----------------------------------------------------------------------------
(* Initial state: the page is loaded and initPopupSystem has run. *)

InitBackdrop == [exists |-> FALSE, visible |-> FALSE, onceClose |-> 0]

InitSeq ==
    [items |-> <<>>, currentIndex |-> 0, isActive |-> FALSE, onComplete |-> 0,
     container |-> [created |-> FALSE, inDom |-> FALSE, visible |-> FALSE,
                    content |-> NoContent],
     handlers |-> 0, handlerBound |-> FALSE]

InitSys ==
    [triggers |-> [m \in Markers |-> [popupTriggered |-> FALSE, observed |-> TRUE]],
     queue |-> <<>>, currentPopup |-> 0, isShowingPopup |-> FALSE,
     bound |-> TRUE, page |-> <<>>]

\* elements: the number of #document-viewer elements in the page
InitDv == [container |-> NoViewer, isOpen |-> FALSE, elements |-> 0]

InitGal == [container |-> NoGallery, isOpen |-> FALSE, currentPage |-> 0,
            images |-> 0, title |-> "", keyHandlers |-> 0,
            keyHandlerBound |-> FALSE]

InitHist ==
    [enq |-> <<>>,        \* markers whose descriptor was enqueued, in order
     shown |-> <<>>,      \* markers whose descriptor was presented, in order
     dismissals |-> 0,    \* dismiss events of the dismissal scenario
     ignored |-> FALSE,   \* a notification for a consumed marker was ignored
     resets |-> 0,        \* calls of SystemPopups.reset
     starts |-> 0,        \* calls of sequence.start
     idleStart |-> FALSE, \* the latest start found the presenter idle
     replaced |-> FALSE,  \* the latest start found a sequence active
     overlap |-> FALSE,   \* an advance event came while an exit timer was pending
     advances |-> 0,      \* advance events since the latest start
     renders |-> <<>>,    \* indexes rendered since the latest start
     ref |-> 0,           \* the page of the reference walk of the gallery
     stacked |-> FALSE,   \* the latest open of the viewer found one displayed
     midTeardown |-> FALSE,  \* the latest start came between complete and its timer
     load |-> [theme |-> Missing, fontSize |-> Missing],  \* storage at page load
     sets |-> FALSE,      \* a preference setter, toggle or step was called
     rejected |-> FALSE,  \* a preference setter was called with an invalid value
     sysChanged |-> FALSE,  \* the system dark-mode preference has changed
     unsaved |-> FALSE,   \* a setter applied a valid value with save = false
     toggles |-> 0,       \* toggleTheme calls in a row, up to two, just before now
     calls |-> [k \in 1..MaxStarts |-> 0]]  \* invocations of the k-th start's callback

\* What a first visit finds: nothing stored, system preference light.
InitPrefs ==
    initSettings(
        [prefs |-> BeforeSettings(Missing, Missing, FALSE), fx |-> <<>>]).prefs

Init ==
    /\ backdrop = InitBackdrop
    /\ bodyOverflow = ""
    /\ seq = InitSeq
    /\ sys = InitSys
    /\ dv = InitDv
    /\ gal = InitGal
    /\ timers = <<>>
    /\ prefs = InitPrefs
    /\ hist = InitHist

----------------------------------------------------------------------------
(* Event dispatch *)

\* A click that reaches the document.  Its listeners run in the order they
\* were added: DocumentViewer.init, SystemPopups.init, then the closures of
\* SequencePopups.bindEvents.
DocumentClick(w, link) ==
    LET w1 == DocumentViewer_onClick(w, link)
        w2 == SystemPopups_onClick(w1)
    IN  SequencePopups_clickListeners(w2, w.seq.handlers)

\* A keydown.  The closures of SequencePopups and of ImageGallery come after
\* those of the two init functions, in the order they were added, which
\* depends on the order of the calls of start and gallery.open: galFirst.
DocumentKeydown(w, key, galFirst) ==
    LET w1 == DocumentViewer_onKeydown(w, key)
        w2 == SystemPopups_onKeydown(w1, key)
    IN  IF galFirst
        THEN SequencePopups_keydownListeners(
                 ImageGallery_keydownListeners(w2, key, w.gal.keyHandlers),
                 key, w.seq.handlers)
        ELSE ImageGallery_keydownListeners(
                 SequencePopups_keydownListeners(w2, key, w.seq.handlers),
                 key, w.gal.keyHandlers)

Target(kind, n) == [kind |-> kind, n |-> n]

\* What the user can click in the current state.
CanClick(t) ==
    CASE t.kind \in {"page", "link"} -> TRUE
      [] t.kind = "backdrop" -> backdrop.exists /\ backdrop.visible
      [] t.kind = "seqPopup" -> seq.container.inDom
      [] t.kind = "sysPopup" -> sys.page # <<>>
      [] t.kind \in {"dvBody", "dvClose"} -> dv.container.present
      [] t.kind \in {"galClose", "galOther"} -> gal.container.present
      [] t.kind = "galPrev" -> gal.container.present /\ ~gal.container.prevDisabled
      [] t.kind = "galNext" -> gal.container.present /\ ~gal.container.nextDisabled
      [] t.kind = "galDot" -> gal.container.present /\ t.n < gal.container.of
      [] OTHER -> FALSE

\* The listeners a click on t runs, from the target up to the document.
ClickAt(w, t) ==
    CASE t.kind \in {"page", "seqPopup", "sysPopup", "galOther"} -> DocumentClick(w, 0)
      [] t.kind = "link" -> DocumentClick(w, t.n)
      [] t.kind = "backdrop" -> DocumentClick(DocumentViewer_backdropListeners(w), 0)
      [] t.kind = "dvBody" -> w                         \* stopPropagation
      [] t.kind = "dvClose" -> DocumentViewer_close(w)  \* then stopPropagation
      [] t.kind = "galClose" -> DocumentClick(ImageGallery_close(w), 0)
      [] t.kind = "galPrev" -> ImageGallery_prevPage(w) \* stopPropagation
      [] t.kind = "galNext" -> ImageGallery_nextPage(w)
      [] t.kind = "galDot" -> ImageGallery_goToPage(w, t.n)
      [] OTHER -> w

FireTimer(w, i) ==
    LET kind == w.timers[i]
        w1 == [w EXCEPT !.timers = RemoveAt(@, i)]
    IN  CASE kind = "sysExit" -> SystemPopups_exitTimer(w1)
          [] kind = "sysNext" -> SystemPopups_showNextPopup(w1)
          [] kind = "seqNext" -> SequencePopups_nextTimer(w1)
          [] kind = "seqDone" -> SequencePopups_completeTimer(w1)
          [] kind = "dvExit" -> DocumentViewer_closeTimer(w1)
          [] kind = "galExit" -> ImageGallery_closeTimer(w1)
          [] kind = "galFrame" -> ImageGallery_frame(w1)
          [] OTHER -> w1

\* The bounds of the model: pending timers, once-listeners on the backdrop.
Fits(w) == Len(w.timers) <= MaxTimers /\ w.backdrop.onceClose <= MaxOnce

----------------------------------------------------------------------------
(* History kept for the properties *)

SeqTimerPending(w) == \E i \in 1..Len(w.timers) : w.timers[i] \in {"seqNext", "seqDone"}

\* An event is an advance event when a closure of SequencePopups calls next.
NoteAdvance(w, advancing) ==
    IF advancing
    THEN [w EXCEPT !.hist.advances = @ + 1,
                   !.hist.overlap = @ \/ SeqTimerPending(w)]
    ELSE w

NoteStart(w) ==
    [w EXCEPT !.hist.starts = @ + 1,
              !.hist.idleStart = ~w.seq.isActive /\ ~SeqTimerPending(w),
              !.hist.replaced = w.seq.isActive,
              !.hist.midTeardown =
                  ~w.seq.isActive
                  /\ \E i \in 1..Len(w.timers) : w.timers[i] = "seqDone",
              !.hist.overlap = FALSE,
              !.hist.advances = 0,
              !.hist.renders = <<>>]

\* The reference walk of the Paged Gallery: step by one clamped to 0..n-1,
\* direct jump only when in range.
RefNext(r, n) == IF r < n - 1 THEN r + 1 ELSE r

RefPrev(r) == IF r > 0 THEN r - 1 ELSE r

RefGoTo(r, i, n) == IF 0 <= i /\ i < n THEN i ELSE r

\* A click on a navigation control of the gallery is a step of the walk.
NoteNav(w, t) ==
    CASE t.kind = "galNext" -> [w EXCEPT !.hist.ref = RefNext(@, w.gal.images)]
      [] t.kind = "galPrev" -> [w EXCEPT !.hist.ref = RefPrev(@)]
      [] t.kind = "galDot" -> [w EXCEPT !.hist.ref = RefGoTo(@, t.n, w.gal.images)]
      [] OTHER -> w

\* So is an arrow key while the gallery is open and its key handler bound.
NoteKey(w, key) ==
    IF w.gal.isOpen /\ w.gal.keyHandlers > 0
    THEN CASE key = "ArrowRight" -> [w EXCEPT !.hist.ref = RefNext(@, w.gal.images)]
           [] key = "ArrowLeft" -> [w EXCEPT !.hist.ref = RefPrev(@)]
           [] OTHER -> w
    ELSE w

\* An open of the Document Viewer: was a viewer open and in the page?
NoteView(w, opening) ==
    IF opening
    THEN [w EXCEPT !.hist.stacked = w.dv.isOpen /\ w.dv.container.present]
    ELSE w

\* An open that is not ignored starts the walk at page 0.
NoteOpen(w) == IF w.gal.isOpen THEN w ELSE [w EXCEPT !.hist.ref = 0]

----------------------------------------------------------------------------
(* Actions: one handler run each *)

\* An entry that is not intersecting is ignored whatever its target, so one
\* such entry stands for all of them.
Entries ==
    [target : Markers, isIntersecting : {TRUE}]
        \cup {[target |-> 1, isIntersecting |-> FALSE]}

Notification(m) == [target |-> m, isIntersecting |-> TRUE]

\* handleIntersection handles the entries of a batch one after the other, so
\* a longer batch acts as a sequence of these.
Batches == {<<e>> : e \in Entries} \cup {<<e1, e2>> : e1 \in Entries, e2 \in Entries}

\* The IntersectionObserver delivers a batch of entries.
Intersect ==
    \E entries \in Batches :
        Commit(SystemPopups_handleIntersection(World, entries))

ClickOn(t) ==
    /\ CanClick(t)
    /\ LET advancing == seq.isActive /\ seq.handlers > 0
                        /\ t.kind \notin {"dvBody", "dvClose", "galPrev", "galNext", "galDot"}
           w == ClickAt(NoteView(NoteNav(NoteAdvance(World, advancing), t),
                                 t.kind = "link"), t)
       IN  Fits(w) /\ Commit(w)

Press(key) ==
    \E galFirst \in BOOLEAN :
        LET advancing == seq.isActive /\ seq.handlers > 0
                         /\ key \in {"Enter", " ", "Escape"}
            w == DocumentKeydown(NoteKey(NoteAdvance(World, advancing), key),
                                 key, galFirst)
        IN  Fits(w) /\ Commit(w)

Timer ==
    \E i \in 1..Len(timers) :
        CanFire(i) /\ Commit(FireTimer(World, i))

Reset ==
    /\ hist.resets < MaxResets
    /\ Commit(SystemPopups_reset(World))

\* sequence.start(items, onComplete): the k-th start passes callback k, or none.
Start ==
    /\ hist.starts < MaxStarts
    /\ \E n \in 0..MaxItems, withCallback \in BOOLEAN :
          LET cb == IF withCallback THEN hist.starts + 1 ELSE 0
              w == SequencePopups_init(NoteStart(World), ItemsOf(n), cb)
          IN  Fits(w) /\ Commit(w)

----------------------------------------------------------------------------
(* The Triggered Queue alone: marker notifications, dismiss events, timers *)

SysClick == ClickOn(Target("page", 0)) \/ ClickOn(Target("sysPopup", 0))

SysKeydown == \E key \in Keys : Press(key)

SysNext == Intersect \/ SysClick \/ SysKeydown \/ Timer

SpecSys == Init /\ [][SysNext]_vars

----------------------------------------------------------------------------
(* The Sequential Presenter alone: starts, advance events, timers *)

SeqClick == ClickOn(Target("page", 0)) \/ ClickOn(Target("seqPopup", 0))

SeqKeydown == \E key \in Keys : Press(key)

SeqNext == Start \/ SeqClick \/ SeqKeydown \/ Timer

SpecSeq == Init /\ [][SeqNext]_vars

----------------------------------------------------------------------------
(* The Document Viewer alone *)

\* PopupSystem.showBackdrop()
ShowBackdrop == Commit(showBackdrop(World))

\* PopupSystem.hideBackdrop()
HideBackdrop == Commit(hideBackdrop(World))

\* document.open(options)
DvOpen ==
    \E options \in Docs :
        LET w == DocumentViewer_open(NoteView(World, TRUE), options)
        IN  Fits(w) /\ Commit(w)

\* document.close()
DvClose ==
    LET w == DocumentViewer_close(World)
    IN  Fits(w) /\ Commit(w)

DvClick ==
    \/ ClickOn(Target("page", 0))
    \/ \E l \in Links : ClickOn(Target("link", l))
    \/ ClickOn(Target("backdrop", 0))
    \/ ClickOn(Target("dvBody", 0))
    \/ ClickOn(Target("dvClose", 0))

DvKeydown == \E key \in Keys : Press(key)

DvNext ==
    \/ DvOpen \/ DvClose \/ DvClick \/ DvKeydown \/ Timer
    \/ ShowBackdrop \/ HideBackdrop

SpecDv == Init /\ [][DvNext]_vars

----------------------------------------------------------------------------
(* All overlay components on one page, each with one input: one marker,   *)
(* one sequence of one item, one link, one gallery.                        *)

OverlayIntersect ==
    Commit(SystemPopups_handleIntersection(World, <<Notification(1)>>))

OverlayStart ==
    /\ hist.starts = 0
    /\ LET w == SequencePopups_init(NoteStart(World), ItemsOf(1), 1)
       IN  Fits(w) /\ Commit(w)

\* gallery.open(options)
GalOpen ==
    \E n \in 0..MaxImages, title \in {"", "Pamphlet"} :
        LET w == ImageGallery_open(NoteOpen(World), [images |-> n, title |-> title])
        IN  Fits(w) /\ Commit(w)

OverlayGalOpen ==
    LET w == ImageGallery_open(NoteOpen(World), [images |-> 1, title |-> "Pamphlet"])
    IN  Fits(w) /\ Commit(w)

\* gallery.close()
GalClose ==
    LET w == ImageGallery_close(World)
    IN  Fits(w) /\ Commit(w)

OverlayClick ==
    \/ ClickOn(Target("page", 0))
    \/ ClickOn(Target("link", 1))
    \/ ClickOn(Target("backdrop", 0))
    \/ ClickOn(Target("galClose", 0))

OverlayKeydown == Press("Escape")

OverlayNext ==
    \/ OverlayIntersect \/ OverlayStart \/ OverlayGalOpen
    \/ ShowBackdrop \/ HideBackdrop
    \/ OverlayClick \/ OverlayKeydown \/ Timer

SpecOverlay == Init /\ [][OverlayNext]_vars

----------------------------------------------------------------------------
(* The Paged Gallery alone *)

GalClick ==
    \/ ClickOn(Target("page", 0))
    \/ ClickOn(Target("galOther", 0))
    \/ ClickOn(Target("galClose", 0))
    \/ ClickOn(Target("galPrev", 0))
    \/ ClickOn(Target("galNext", 0))
    \/ \E i \in 0..(MaxImages - 1) : ClickOn(Target("galDot", i))

GalKeydown == \E key \in Keys : Press(key)

GalStep == GalOpen \/ GalClose \/ GalClick \/ GalKeydown \/ Timer

SpecGal == Init /\ [][GalStep]_vars

----------------------------------------------------------------------------
(* Properties of the Triggered Queue *)

QueuedMarkers == [i \in 1..Len(sys.queue) |-> sys.queue[i].from]

\* C1: at most one Triggered Queue popup container is present in the page,
\* at most one descriptor is current, and every enqueued descriptor that is
\* not (or was not) the current one is still in the queue.
C1_OnePopupAtATime ==
    /\ Len(sys.page) <= 1
    /\ sys.currentPopup # 0 => PopupIds(World) = {sys.currentPopup}
    /\ hist.enq = hist.shown \o QueuedMarkers

\* C3: a popup present in the page can be dismissed: it is the current one
\* and the presenting flag is set, so that a click and an Escape/Enter/Space
\* key each start its removal.
C3_DisplayedPopupIsDismissable ==
    \A i \in 1..Len(sys.page) :
        /\ sys.page[i].id = sys.currentPopup
        /\ \E j \in 1..Len(SystemPopups_onClick(World).timers) :
               SystemPopups_onClick(World).timers[j] = "sysExit"
        /\ \A key \in {"Escape", "Enter", " "} :
               \E j \in 1..Len(SystemPopups_onKeydown(World, key).timers) :
                   SystemPopups_onKeydown(World, key).timers[j] = "sysExit"

Occurrences(s, x) == Cardinality({i \in 1..Len(s) : s[i] = x})

Program(w) == [w EXCEPT !.hist = InitHist]

\* C4: without reset, no marker is enqueued twice, and a notification (or a
\* batch of notifications) for a consumed marker changes nothing of the
\* program state: not the queue, not what is presented.
C4_OncePerMarker ==
    /\ \A m \in Markers : Occurrences(hist.enq, m) <= 1
    /\ \A m \in Markers :
          sys.triggers[m].popupTriggered =>
              /\ Program(SystemPopups_handleIntersection(World, <<Notification(m)>>))
                     = Program(World)
              /\ Program(SystemPopups_handleIntersection(
                             World, <<Notification(m), Notification(m)>>))
                     = Program(World)

\* Witness of C4: every marker was consumed, a duplicate notification was
\* ignored, and descriptors are waiting behind the presented one.
C4_Witness ==
    /\ \A m \in Markers : sys.triggers[m].popupTriggered
    /\ hist.ignored
    /\ Len(hist.enq) = NumMarkers
    /\ Len(sys.queue) = NumMarkers - 1
    /\ Len(sys.page) = 1

----------------------------------------------------------------------------
(* The dismissal scenario of the Triggered Queue: markers enter before any *)
(* dismissal; then each presented popup is dismissed once.  Timers fire    *)
(* (the event loop runs them) and the user keeps dismissing.               *)

Presented ==
    /\ sys.currentPopup # 0
    /\ \E i \in 1..Len(sys.page) :
           sys.page[i].id = sys.currentPopup /\ sys.page[i].visible

FifoEnter == hist.dismissals = 0 /\ Intersect

FifoDismiss ==
    /\ Presented
    /\ \/ LET w == ClickAt(World, Target("sysPopup", 0))
          IN  Fits(w) /\ Commit([w EXCEPT !.hist.dismissals = @ + 1])
       \/ \E key \in {"Escape", "Enter", " "} :
              LET w == DocumentKeydown(World, key, FALSE)
              IN  Fits(w) /\ Commit([w EXCEPT !.hist.dismissals = @ + 1])

FifoNext == FifoEnter \/ FifoDismiss \/ Timer

SpecFifo ==
    Init /\ [][FifoNext]_vars /\ WF_vars(Timer) /\ WF_vars(FifoDismiss)

IsPrefix(s, t) == Len(s) <= Len(t) /\ SubSeq(t, 1, Len(s)) = s

SysIdle ==
    /\ sys.page = <<>>
    /\ sys.currentPopup = 0
    /\ ~sys.isShowingPopup
    /\ sys.queue = <<>>
    /\ timers = <<>>

\* C2: in the dismissal scenario the first marker's popup is presented in
\* the handler that enqueues it, popups are presented one at a time in the
\* order the markers entered, and after as many dismissals as markers
\* entered all were presented and the queue is idle with nothing displayed.
C2_FifoAfterDismissals ==
    /\ [](/\ Len(sys.page) <= 1
          /\ IsPrefix(hist.shown, hist.enq)
          /\ hist.enq # <<>> => hist.shown # <<>>
          /\ hist.dismissals <= Len(hist.shown))
    /\ <>[](/\ SysIdle
            /\ hist.shown = hist.enq
            /\ hist.dismissals = Len(hist.enq))

\* Witness of C2: all markers entered, all were presented and dismissed.
C2_Witness ==
    /\ SysIdle
    /\ Len(hist.enq) = NumMarkers
    /\ hist.shown = hist.enq
    /\ hist.dismissals = NumMarkers

----------------------------------------------------------------------------
(* Properties of the Sequential Presenter *)

UpTo(n) == [i \in 1..n |-> i - 1]

\* The callback of the latest start was invoked this many times (0 if none
\* was passed).
CallsOfLatest == IF seq.onComplete = 0 THEN 0 ELSE hist.calls[seq.onComplete]

\* A run of the scenario of C5: started while the presenter was idle, every
\* advance event after the exit timer of the one before has fired.
SerialRun == hist.starts > 0 /\ hist.idleStart /\ ~hist.overlap

\* C5: in a run started with N items while inactive, with the advance events
\* spaced out, the items 0..N-1 are rendered in order, the completion
\* callback is not invoked before the N-th advance event, and it is invoked
\* at most once, with all N items rendered by then.
C5_SerialRunCompletesOnce ==
    SerialRun =>
        /\ IsPrefix(hist.renders, UpTo(Len(seq.items)))
        /\ hist.advances < Len(seq.items) => CallsOfLatest = 0
        /\ CallsOfLatest <= 1
        /\ CallsOfLatest = 1 => hist.renders = UpTo(Len(seq.items))

\* C6: for one start, whatever the interleaving of advance events and timer
\* firings, the completion callback is invoked at most once.
C6_CallbackAtMostOnce ==
    hist.starts = 1 => \A k \in 1..MaxStarts : hist.calls[k] <= 1

\* C7: after start is called while a sequence is active, the presenter
\* behaves as freshly started: the index moves by one per advance event
\* (never ahead of the number of advance events), the replaced sequence's
\* callback is not invoked, and the new callback is invoked at most once,
\* after all items were advanced through.
C7_RestartBehavesAsFresh ==
    (hist.starts = 2 /\ hist.replaced /\ ~hist.overlap /\ seq.items # <<>>) =>
        /\ seq.currentIndex <= hist.advances
        /\ IsPrefix(hist.renders, UpTo(Len(seq.items)))
        /\ hist.calls[1] = 0
        /\ CallsOfLatest <= 1
        /\ CallsOfLatest = 1 => hist.advances >= Len(seq.items)

----------------------------------------------------------------------------
(* Properties of the shared backdrop *)

\* C8: whenever the backdrop is visible, page scrolling is suppressed.
C8_VisibleBackdropLocksScroll == backdrop.visible => bodyOverflow = "hidden"

ClickTargets ==
    {Target(k, 0) : k \in {"page", "backdrop", "seqPopup", "sysPopup", "dvBody",
                           "dvClose", "galClose", "galOther", "galPrev", "galNext"}}
        \cup {Target("link", l) : l \in Links}
        \cup {Target("galDot", i) : i \in 0..(MaxImages - 1)}

\* The outcome of every handler that can run in the current state.
HandlerRuns ==
    {ClickAt(World, t) : t \in {u \in ClickTargets : CanClick(u)}}
        \cup {DocumentKeydown(World, key, g) : key \in Keys, g \in BOOLEAN}
        \cup {FireTimer(World, i) : i \in 1..Len(timers)}
        \cup {hideBackdrop(World), DocumentViewer_close(World)}

BackdropCalls(w) ==
    SelectSeq(w.fx, LAMBDA x : x.e \in {"showBackdrop", "hideBackdrop"})

HidLast(w) ==
    /\ BackdropCalls(w) # <<>>
    /\ BackdropCalls(w)[Len(BackdropCalls(w))].e = "hideBackdrop"

\* C9: there is no reference count: after any handler whose last backdrop
\* call is hideBackdrop, the backdrop is not visible and scrolling is
\* restored, whatever overlays are open at that moment.
C9_HideIgnoresOpenOverlays ==
    \A w \in HandlerRuns :
        HidLast(w) => ~w.backdrop.visible /\ w.bodyOverflow = ""

\* Witness of C9: the Document Viewer is open and displayed, the backdrop is
\* hidden, and a Triggered Queue popup is on its way out (its exit timer is
\* pending): its dismissal called hideBackdrop last.
C9_Witness ==
    /\ dv.isOpen /\ dv.container.present /\ dv.container.visible
    /\ ~backdrop.visible /\ bodyOverflow = ""
    /\ sys.currentPopup # 0
    /\ \E i \in 1..Len(timers) : timers[i] = "sysExit"

----------------------------------------------------------------------------
(* Properties of the Document Viewer *)

\* C10: nothing cancels the timer of close: when it fires after a later
\* open, it destroys the container that open created and leaves the viewer
\* marked open, with no container.
C10_StaleTimerDestroysNewContainer ==
    \A i \in 1..Len(timers) :
        (timers[i] = "dvExit" /\ dv.isOpen /\ dv.container.present) =>
            LET w == FireTimer(World, i)
            IN  /\ w.dv.isOpen
                /\ ~w.dv.container.present
                /\ w.timers = RemoveAt(timers, i)

\* Witness of C10: the viewer is marked open and has no container.
C10_Witness == dv.isOpen /\ ~dv.container.present /\ dv.container = NoViewer

----------------------------------------------------------------------------
(* Error handling *)

Throws(w) == \E i \in 1..Len(w.fx) : w.fx[i].e = "throw"

GalleryOptions == [images : 0..MaxImages, title : {"", "Pamphlet"}]

\* The outcome of every call of the public API in the current state.
PublicCalls ==
    {SequencePopups_init(World, ItemsOf(n), 0) : n \in 0..MaxItems}
        \cup {DocumentViewer_open(World, options) : options \in Docs}
        \cup {ImageGallery_open(World, options) : options \in GalleryOptions}
        \cup {SystemPopups_reset(World), DocumentViewer_close(World),
              ImageGallery_close(World), showBackdrop(World), hideBackdrop(World)}

\* C11: no public operation and no click, key or timer handler raises an
\* error, in any reachable state.
C11_NoHandlerThrows == \A w \in HandlerRuns \cup PublicCalls : ~Throws(w)

----------------------------------------------------------------------------
(* More properties of the Document Viewer *)

\* What the viewer displays for a descriptor.
Displays(container, options) ==
    /\ container.present
    /\ container.title = options.title
    /\ container.body =
           (CASE options.type = "pdf" -> "iframe:" \o options.src
              [] options.type = "article" -> "article:" \o options.content
              [] OTHER -> "img:" \o options.src)

\* C12: at most one viewer element is in the page, it is the one the viewer
\* refers to, and open in any state (a viewer open or not) leaves exactly
\* one element in the page, built from the descriptor just passed.
C12_SingleViewer ==
    /\ dv.elements <= 1
    /\ dv.elements = 1 <=> dv.container.present
    /\ \A options \in Docs :
           LET w == DocumentViewer_open(World, options)
           IN  /\ w.dv.elements = 1
               /\ Displays(w.dv.container, options)
               /\ w.dv.container.visible /\ w.dv.isOpen
    /\ \A l \in Links :
           LET w == DocumentViewer_onClick(World, l)
           IN  w.dv.elements = 1 /\ Displays(w.dv.container, LinkOptions(l))

\* Witness of C12: open was called while a viewer was open and displayed;
\* one element is in the page and it shows the article passed last.
C12_Witness ==
    /\ hist.stacked
    /\ dv.elements = 1
    /\ dv.isOpen /\ dv.container.visible
    /\ dv.container.title = "News"
    /\ dv.container.body = "article:<p>news</p>"

Pending(kind) == \E i \in 1..Len(timers) : timers[i] = kind

Scheduled(w, kind) == \E i \in 1..Len(w.timers) : w.timers[i] = kind

\* C13: while the viewer is open, a click on the backdrop closes it (not
\* open, not displayed, removal scheduled), and a click inside the viewer
\* other than on the close control runs no handler of the overlay
\* components and changes nothing.
C13_BackdropClickCloses ==
    /\ (dv.isOpen /\ CanClick(Target("backdrop", 0))) =>
           LET w == ClickAt(World, Target("backdrop", 0))
           IN  /\ ~w.dv.isOpen
               /\ ~w.dv.container.visible
               /\ Scheduled(w, "dvExit")
    /\ (dv.isOpen /\ CanClick(Target("dvBody", 0))) =>
           ClickAt(World, Target("dvBody", 0)) = World

\* C14: an Escape key event closes the viewer when it is open, and changes
\* nothing (viewer, backdrop, scrolling) when it is not open.
C14_EscapeClosesOnlyWhileOpen ==
    /\ dv.isOpen =>
           LET w == DocumentViewer_onKeydown(World, "Escape")
           IN  /\ ~w.dv.isOpen
               /\ ~w.dv.container.visible
               /\ Scheduled(w, "dvExit")
    /\ ~dv.isOpen => DocumentViewer_onKeydown(World, "Escape") = World

----------------------------------------------------------------------------
(* The Triggered Queue with reset: single notifications, dismiss events,   *)
(* timers and calls of PopupSystem.system.reset()                           *)

\* reset treats every marker alike: two of them enter the band here, enough
\* for a descriptor to wait behind the presented one.
ResetIntersect ==
    \E m \in {1, 2} :
        Commit(SystemPopups_handleIntersection(World, <<Notification(m)>>))

ResetStep ==
    \/ ResetIntersect \/ Reset
    \/ ClickOn(Target("page", 0)) \/ Press("Escape") \/ Timer

SpecReset == Init /\ [][ResetStep]_vars

\* The fields of a world that a dismiss event acts on.
Dismissal(w) ==
    [page |-> w.sys.page, currentPopup |-> w.sys.currentPopup,
     isShowingPopup |-> w.sys.isShowingPopup, timers |-> w.timers,
     backdrop |-> w.backdrop, bodyOverflow |-> w.bodyOverflow]

\* C15: after reset no marker is consumed, every marker is observed and the
\* queue is empty; the current popup, the presenting flag, the page and the
\* pending timers are as before, and a dismiss event after reset does what
\* it does without reset: it starts the removal of a presented popup.
C15_ResetKeepsCurrentPopup ==
    LET w == SystemPopups_reset(World)
    IN  /\ \A m \in Markers :
               ~w.sys.triggers[m].popupTriggered /\ w.sys.triggers[m].observed
        /\ w.sys.queue = <<>>
        /\ Dismissal(w) = Dismissal(World)
        /\ Dismissal(SystemPopups_onClick(w)) = Dismissal(SystemPopups_onClick(World))
        /\ \A key \in Keys :
               Dismissal(SystemPopups_onKeydown(w, key))
                   = Dismissal(SystemPopups_onKeydown(World, key))
        /\ (sys.isShowingPopup /\ Presented) =>
               /\ SystemPopups_onClick(w).timers = Append(timers, "sysExit")
               /\ \A key \in {"Escape", "Enter", " "} :
                      SystemPopups_onKeydown(w, key).timers = Append(timers, "sysExit")

\* Witness of C15: reset was called while the popup of marker 1 was
\* presented; the popup is still presented and marker 1, observed again,
\* has enqueued a second descriptor behind it.
C15_Witness ==
    /\ hist.resets = 1
    /\ sys.isShowingPopup /\ Presented
    /\ \E i \in 1..Len(sys.page) : sys.page[i].from = 1
    /\ sys.queue # <<>> /\ sys.queue[1].from = 1
    /\ hist.shown = <<>>

----------------------------------------------------------------------------
(* Properties of the Paged Gallery *)

\* C16 as stated: in every reachable state 0 <= currentPage < number of
\* images.
C16_PageInRange == 0 <= gal.currentPage /\ gal.currentPage < gal.images

\* C16, amended: the gallery is open only with a non-empty image list, and
\* in every reachable state whose image list is non-empty (so whenever the
\* gallery is open) 0 <= currentPage < number of images; with the empty
\* list (before the first open, after open with no images) currentPage = 0.
C16_PageInRangeWhenNonEmpty ==
    /\ gal.isOpen => gal.images > 0
    /\ gal.images > 0 => 0 <= gal.currentPage /\ gal.currentPage < gal.images
    /\ gal.images = 0 => gal.currentPage = 0

\* Witness of C16: a gallery that was on its last page was closed and one
\* with fewer images is open.
C16_Witness ==
    /\ gal.isOpen /\ gal.container.present
    /\ gal.images = 1 /\ gal.currentPage = 0
    /\ Pending("galExit")

\* C17: goToPage with an index out of range changes nothing (page, image,
\* label, indicators, buttons); nextPage at the last page and prevPage at
\* page 0 change nothing.
C17_OutOfRangeIsNoOp ==
    /\ \A i \in {-2, -1, gal.images, gal.images + 1} :
           ImageGallery_goToPage(World, i) = World
    /\ gal.currentPage = gal.images - 1 => ImageGallery_nextPage(World) = World
    /\ gal.currentPage = 0 => ImageGallery_prevPage(World) = World

\* Witness of C17: the gallery is displayed at the last of several pages.
C17_Witness ==
    /\ gal.isOpen /\ gal.container.present /\ gal.container.visible
    /\ gal.images = MaxImages
    /\ gal.currentPage = gal.images - 1
    /\ gal.container.img = gal.images - 1

\* C18: while the gallery is open (its container in the page), the prev
\* button is disabled exactly at page 0 and the next button exactly at the
\* last page.
C18_NavButtonsAtBoundaries ==
    (gal.isOpen /\ gal.container.present) =>
        /\ gal.container.prevDisabled <=> (gal.currentPage = 0)
        /\ gal.container.nextDisabled <=> (gal.currentPage = gal.images - 1)

\* Witness of C18: a gallery of one image, both buttons disabled.
C18_Witness ==
    /\ gal.isOpen /\ gal.container.present
    /\ gal.images = 1
    /\ gal.container.prevDisabled /\ gal.container.nextDisabled

\* C19: currentPage is the page of the reference walk; while the gallery
\* is open the label shows currentPage + 1 of n, the image is the one of
\* currentPage and the one active indicator is the one at currentPage; open
\* shows page 1 of n with the first indicator active; and with 3 images
\* nextPage, nextPage, prevPage gives page 1 with the second indicator active.
C19_FollowsReferenceWalk ==
    /\ gal.currentPage = hist.ref
    /\ (gal.isOpen /\ gal.container.present) =>
           /\ gal.container.label = gal.currentPage + 1
           /\ gal.container.of = gal.images
           /\ gal.container.img = gal.currentPage
           /\ gal.container.active = {gal.currentPage}
    /\ ~gal.isOpen =>
           /\ \A options \in {o \in GalleryOptions : o.images >= 1} :
                  LET w == ImageGallery_open(World, options)
                  IN  /\ w.gal.container.label = 1
                      /\ w.gal.container.of = options.images
                      /\ w.gal.container.active = {0}
           /\ LET w0 == ImageGallery_open(World, [images |-> 3, title |-> ""])
                   w3 == ImageGallery_prevPage(
                             ImageGallery_nextPage(ImageGallery_nextPage(w0)))
               IN  /\ w3.gal.currentPage = 1
                   /\ w3.gal.container.active = {1}
                   /\ w3.gal.container.label = 2

\* Witness of C19: three images, page 1 reached from page 2 (the steps of
\* the walk are clicks and arrow keys), second indicator active.
C19_Witness ==
    /\ gal.isOpen /\ gal.container.present
    /\ gal.images = 3 /\ gal.currentPage = 1 /\ hist.ref = 1
    /\ gal.container.active = {1} /\ gal.container.label = 2
    /\ ~gal.container.prevDisabled /\ ~gal.container.nextDisabled

\* C20: open while the gallery is open changes nothing and has no effect,
\* whatever the options; after close, open shows the options passed to it.
C20_OpenWhileOpenIsNoOp ==
    gal.isOpen =>
        /\ \A options \in GalleryOptions : ImageGallery_open(World, options) = World
        /\ \A options \in {o \in GalleryOptions : o.images >= 1} :
               LET w == ImageGallery_open(ImageGallery_close(World), options)
               IN  /\ w.gal.isOpen /\ w.gal.container.present
                   /\ w.gal.images = options.images
                   /\ w.gal.currentPage = 0
                   /\ w.gal.container.of = options.images
                   /\ w.gal.container.title =
                          (IF options.title = "" THEN "Gallery" ELSE options.title)

\* Witness of C20: a titled gallery of two images displayed at its second
\* page; any other options passed to open would show.
C20_Witness ==
    /\ gal.isOpen /\ gal.container.present /\ gal.container.visible
    /\ gal.title = "Pamphlet" /\ gal.images = 2 /\ gal.currentPage = 1
    /\ timers = <<>>

\* What open must leave alone when it rejects its options.
GalleryState(w) ==
    [gal |-> w.gal, bodyOverflow |-> w.bodyOverflow, timers |-> w.timers,
     backdrop |-> w.backdrop]

\* C21: open with an empty (or missing) image list is a no-op: no
\* container, gallery closed, scrolling not suppressed, no key handler
\* bound, and images, title and currentPage as before.
C21_EmptyOpenIsNoOp ==
    ~gal.isOpen =>
        \A title \in {"", "Pamphlet"} :
            GalleryState(ImageGallery_open(World, [images |-> 0, title |-> title]))
                = GalleryState(World)

----------------------------------------------------------------------------
(* The Preference Store alone: any storage and system preference at load,  *)
(* then setters, toggles, steps and changes of the system preference.      *)

\* What localStorage may hold at load: nothing, a member of the
\* enumeration, a string outside it, or the empty string.
StoredThemes == {Missing, "light", "dark", "sepia", ""}

StoredFontSizes == {Missing, "small", "normal", "large", "x-large", "huge", ""}

\* Arguments of the setters: members of the enumeration and other strings.
ThemeInputs == {"light", "dark", "sepia", "Dark"}

FontSizeInputs == {"small", "normal", "large", "x-large", "huge", "medium"}

PrefsInit ==
    /\ backdrop = InitBackdrop
    /\ bodyOverflow = ""
    /\ seq = InitSeq
    /\ sys = InitSys
    /\ dv = InitDv
    /\ gal = InitGal
    /\ timers = <<>>
    /\ \E storedTheme \in StoredThemes, storedFontSize \in StoredFontSizes,
          prefersDark \in BOOLEAN :
           /\ prefs = initSettings(
                  [prefs |-> BeforeSettings(storedTheme, storedFontSize, prefersDark),
                   fx |-> <<>>]).prefs
           /\ hist = [InitHist EXCEPT !.load = [theme |-> storedTheme,
                                                fontSize |-> storedFontSize]]

NoteSet(w, valid) ==
    [w EXCEPT !.hist.sets = TRUE, !.hist.rejected = @ \/ ~valid,
              !.hist.toggles = 0]

NoteToggle(w) ==
    [w EXCEPT !.hist.sets = TRUE,
              !.hist.toggles = IF @ < 2 THEN @ + 1 ELSE 2]

NoteSave(w, valid, save) ==
    [NoteSet(w, valid) EXCEPT !.hist.unsaved = @ \/ (valid /\ ~save)]

SetTheme ==
    \E theme \in ThemeInputs, save \in BOOLEAN :
        Commit(setTheme(NoteSave(World, includes(THEMES, theme), save), theme, save))

ToggleTheme == Commit(toggleTheme(NoteToggle(World)))

SetFontSize ==
    \E size \in FontSizeInputs, save \in BOOLEAN :
        Commit(setFontSize(NoteSave(World, includes(FONT_SIZES, size), save),
                           size, save))

IncreaseFontSize == Commit(increaseFontSize(NoteSet(World, TRUE)))

DecreaseFontSize == Commit(decreaseFontSize(NoteSet(World, TRUE)))

\* The system preference flips and the change listener runs.
SystemThemeChange ==
    Commit(onSystemThemeChange([World EXCEPT !.hist.sysChanged = TRUE,
                                             !.hist.toggles = 0],
                               ~prefs.prefersDark))

PrefsNext ==
    \/ SetTheme \/ ToggleTheme \/ SetFontSize
    \/ IncreaseFontSize \/ DecreaseFontSize \/ SystemThemeChange

SpecPrefs == PrefsInit /\ [][PrefsNext]_vars

Emitted(w, e) == SelectSeq(w.fx, LAMBDA x : x.e = e)

ValidThemes == {THEMES[i] : i \in 1..Len(THEMES)}

ValidFontSizes == {FONT_SIZES[i] : i \in 1..Len(FONT_SIZES)}

SystemTheme(dark) == IF dark THEN "dark" ELSE "light"

----------------------------------------------------------------------------
(* Preference Store properties.                                            *)

\* C22: after setTheme with a valid theme, getTheme returns that theme
\* and the root theme attribute equals it, and after setFontSize with a
\* valid size, getFontSize returns that size and the root font-size
\* attribute equals it, whether or not the value is saved.
C22_SetThenGet ==
    /\ \A theme \in ValidThemes, save \in BOOLEAN :
           LET w == setTheme(World, theme, save)
           IN  getTheme(w) = theme /\ w.prefs.theme = theme
    /\ \A size \in ValidFontSizes, save \in BOOLEAN :
           LET w == setFontSize(World, size, save)
           IN  getFontSize(w) = size /\ w.prefs.fontSize = size

C22_Witness ==
    /\ hist.sets
    /\ getTheme(World) = "dark" /\ prefs.stored.theme = "dark"
    /\ getFontSize(World) = "x-large" /\ prefs.stored.fontSize = "x-large"
    /\ hist.load = [theme |-> "light", fontSize |-> "small"]

\* C23: a setter called with a value outside its enumeration changes
\* neither the applied value nor storage nor the buttons, notifies no one
\* and does not throw.
C23_InvalidSetChangesNothing ==
    /\ \A theme \in ThemeInputs \ ValidThemes, save \in BOOLEAN :
           LET w == setTheme(World, theme, save)
           IN  /\ w.prefs = prefs
               /\ getTheme(w) = getTheme(World)
               /\ Emitted(w, "themechange") = <<>>
               /\ Emitted(w, "throw") = <<>>
    /\ \A size \in FontSizeInputs \ ValidFontSizes, save \in BOOLEAN :
           LET w == setFontSize(World, size, save)
           IN  /\ w.prefs = prefs
               /\ getFontSize(w) = getFontSize(World)
               /\ Emitted(w, "fontsizechange") = <<>>
               /\ Emitted(w, "throw") = <<>>

C23_Witness ==
    /\ hist.rejected
    /\ prefs.theme = "dark" /\ prefs.stored.theme = Missing
    /\ prefs.fontSize = "large" /\ prefs.stored.fontSize = "large"

\* C24: increaseFontSize and decreaseFontSize move the font size by one
\* position in FONT_SIZES, stay put at the ends, and the result is always
\* a member of FONT_SIZES.
C24_StepsClamp ==
    LET last == Len(FONT_SIZES) - 1
        i == indexOf(FONT_SIZES, getFontSize(World))
        up == increaseFontSize(World)
        down == decreaseFontSize(World)
    IN  /\ i \in 0..last
        /\ indexOf(FONT_SIZES, getFontSize(up)) = IF i < last THEN i + 1 ELSE last
        /\ indexOf(FONT_SIZES, getFontSize(down)) = IF i > 0 THEN i - 1 ELSE 0
        /\ i = last => up.prefs = prefs /\ Emitted(up, "fontsizechange") = <<>>
        /\ i = 0 => down.prefs = prefs /\ Emitted(down, "fontsizechange") = <<>>

C24_Witness ==
    /\ hist.sets /\ ~hist.rejected
    /\ hist.load.fontSize = "small"
    /\ prefs.fontSize = "x-large" /\ prefs.stored.fontSize = "x-large"

\* C25: right after initialization the applied theme is the stored one
\* when that is a member of THEMES and otherwise follows the system
\* preference, the applied font size is the stored one when that is a
\* member of FONT_SIZES and otherwise 'normal', and storage is as it was.
C25_InitFromStorageThenSystem ==
    (~hist.sets /\ ~hist.sysChanged) =>
        /\ prefs.theme = IF hist.load.theme \in ValidThemes
                         THEN hist.load.theme
                         ELSE SystemTheme(prefs.prefersDark)
        /\ prefs.fontSize = IF hist.load.fontSize \in ValidFontSizes
                            THEN hist.load.fontSize
                            ELSE DEFAULT_FONT_SIZE
        /\ prefs.stored = hist.load

C25_Witness ==
    /\ ~hist.sets /\ ~hist.sysChanged
    /\ hist.load = [theme |-> Missing, fontSize |-> Missing]
    /\ prefs.prefersDark
    /\ prefs.theme = "dark" /\ prefs.fontSize = "normal"
    /\ prefs.stored = [theme |-> Missing, fontSize |-> Missing]

C27_AppliedValuesInEnumeration ==
    /\ prefs.theme \in ValidThemes
    /\ prefs.fontSize \in ValidFontSizes

C27_Witness ==
    /\ hist.load = [theme |-> "sepia", fontSize |-> "huge"]
    /\ hist.sets /\ hist.rejected /\ hist.sysChanged
    /\ prefs.theme = "dark" /\ prefs.fontSize = "normal"

----------------------------------------------------------------------------
(* Order of presentation, in general.                                      *)

\* C28: without reset, whatever the interleaving of marker entries,
\* dismiss events and timer firings, the markers whose popups were
\* presented so far are a prefix of the markers in the order they were
\* enqueued, the rest waits in the queue in that order, and none was
\* presented twice.
C28_PresentedIsPrefixOfEnqueued ==
    /\ IsPrefix(hist.shown, hist.enq)
    /\ [i \in 1..Len(sys.queue) |-> sys.queue[i].from]
           = SubSeq(hist.enq, Len(hist.shown) + 1, Len(hist.enq))
    /\ \A m \in Markers : Occurrences(hist.shown, m) <= 1

\* Witness of C28: the second marker entered while the first popup was
\* displayed or leaving, the third one later, and all three were presented
\* in the order of entry, which is not the order of the markers.
C28_Witness ==
    /\ hist.enq = <<2, 3, 1>>
    /\ hist.shown = <<2, 3, 1>>
    /\ sys.queue = <<>>
    /\ sys.currentPopup # 0
    /\ \E i \in 1..Len(sys.page) : sys.page[i].from = 1 /\ sys.page[i].visible

\* C29: within one start, whatever the interleaving of advance events and
\* timer firings, the rendered item indexes are 0, 1, 2, ... in this order,
\* none skipped, none twice, none beyond the last item, and the container
\* shows the item rendered last.
C29_RendersInOrder ==
    /\ IsPrefix(hist.renders, UpTo(Len(seq.items)))
    /\ hist.renders # <<>> =>
           /\ seq.container.content # NoContent
           /\ seq.container.content.index = hist.renders[Len(hist.renders)]

\* Witness of C29: two advance events before the first exit timer fired;
\* both items were rendered, in order, and the sequence is completing.
C29_Witness ==
    /\ hist.starts = 1
    /\ hist.overlap
    /\ Len(seq.items) = 2
    /\ hist.renders = <<0, 1>>
    /\ ~seq.isActive

\* C30: clicks and Enter/Space/Escape keys advance the sequence only while
\* it is active: with the active flag cleared (before any start, and from
\* the moment completion starts) the presenter's listeners leave everything
\* as it is and an event leaves index, items, container and callback
\* unchanged and schedules no timer; while active an advance event
\* schedules one exit timer per bound listener and any other key does
\* nothing.
C30_AdvanceOnlyWhileActive ==
    /\ ~seq.isActive =>
           /\ SequencePopups_clickListeners(World, seq.handlers) = World
           /\ \A key \in Keys :
                  SequencePopups_keydownListeners(World, key, seq.handlers) = World
           /\ \A t \in {Target("page", 0), Target("seqPopup", 0)} :
                  /\ ClickAt(World, t).seq = seq
                  /\ ClickAt(World, t).timers = timers
                  /\ ClickAt(World, t).hist.calls = hist.calls
           /\ \A key \in Keys :
                  /\ DocumentKeydown(World, key, FALSE).seq = seq
                  /\ DocumentKeydown(World, key, FALSE).timers = timers
                  /\ DocumentKeydown(World, key, FALSE).hist.calls = hist.calls
    /\ (seq.isActive /\ seq.handlers > 0) =>
           LET exits == [i \in 1..seq.handlers |-> "seqNext"]
           IN  /\ ClickAt(World, Target("page", 0)).timers = timers \o exits
               /\ \A key \in Keys :
                      IF key \in {"Enter", " ", "Escape"}
                      THEN DocumentKeydown(World, key, FALSE).timers = timers \o exits
                      ELSE DocumentKeydown(World, key, FALSE) = World

\* Witness of C30: both items were shown, completion has started, the
\* listeners are still bound and the popup is still in the page, so that a
\* click reaches them.
C30_Witness ==
    /\ hist.starts > 0
    /\ hist.renders = <<0, 1>>
    /\ ~seq.isActive
    /\ seq.handlers > 0
    /\ seq.container.inDom
    /\ Pending("seqDone")

----------------------------------------------------------------------------
(* Further properties of the Preference Store.                             *)

\* C31: a valid set applies the value to the root attribute and emits
\* exactly one change notification carrying it; storage receives the value
\* unless save is false, and then stays as it was; setting the theme leaves
\* the font-size attribute and its stored value alone, and the other way
\* round.
C31_ValidSetAppliesNotifiesSaves ==
    /\ \A theme \in ValidThemes, save \in BOOLEAN :
           LET w == setTheme(World, theme, save)
           IN  /\ w.prefs.theme = theme
               /\ w.fx = <<Effect("themechange", theme)>>
               /\ w.prefs.stored.theme =
                      IF save THEN theme ELSE prefs.stored.theme
               /\ w.prefs.fontSize = prefs.fontSize
               /\ w.prefs.stored.fontSize = prefs.stored.fontSize
    /\ \A size \in ValidFontSizes, save \in BOOLEAN :
           LET w == setFontSize(World, size, save)
           IN  /\ w.prefs.fontSize = size
               /\ w.fx = <<Effect("fontsizechange", size)>>
               /\ w.prefs.stored.fontSize =
                      IF save THEN size ELSE prefs.stored.fontSize
               /\ w.prefs.theme = prefs.theme
               /\ w.prefs.stored.theme = prefs.stored.theme

\* Witness of C31: after load with 'light' stored and no font size stored,
\* both values were set without saving.
C31_Witness ==
    /\ hist.sets /\ ~hist.rejected
    /\ hist.load = [theme |-> "light", fontSize |-> Missing]
    /\ prefs.theme = "dark" /\ prefs.stored.theme = "light"
    /\ prefs.fontSize = "large" /\ prefs.stored.fontSize = Missing

----------------------------------------------------------------------------
(* The backdrop when nothing is displayed.                                 *)

\* No timer is pending.
Quiescent == timers = <<>>

\* No overlay container of any component is in the page.
NoOverlayContainer ==
    /\ sys.page = <<>>
    /\ ~seq.container.inDom
    /\ ~dv.container.present
    /\ ~gal.container.present

\* C32: in a state with no timer pending and no overlay container in the
\* page, the backdrop is hidden and page scrolling is not suppressed.
C32_NothingDisplayedNothingDimmed ==
    (Quiescent /\ NoOverlayContainer) =>
        (~backdrop.visible /\ bodyOverflow = "")

----------------------------------------------------------------------------
(* The container of the Paged Gallery.                                     *)

\* C33: whenever the gallery's open flag is set its container exists, so
\* that close, prevPage, nextPage and goToPage have a container to act on
\* and none of them raises an error.
C33_OpenGalleryHasContainer ==
    gal.isOpen =>
        /\ gal.container.present
        /\ ~Throws(ImageGallery_close(World))
        /\ ~Throws(ImageGallery_prevPage(World))
        /\ ~Throws(ImageGallery_nextPage(World))
        /\ \A i \in 0..MaxImages : ~Throws(ImageGallery_goToPage(World, i))

----------------------------------------------------------------------------
(* A start during the teardown of the previous sequence.                   *)

\* C34: when start is called after the previous sequence began completing
\* and before its teardown timer fired, that timer leaves the new sequence
\* alone: while the new sequence is active its container is in the page and
\* its listeners are bound, and its callback is not invoked before all its
\* items were rendered and advanced past.
C34_StaleTeardownSparesNewSequence ==
    (hist.starts > 0 /\ hist.midTeardown) =>
        /\ seq.isActive => (seq.container.inDom /\ seq.handlerBound)
        /\ CallsOfLatest > 0 =>
               /\ hist.renders = UpTo(Len(seq.items))
               /\ seq.currentIndex >= Len(seq.items)

----------------------------------------------------------------------------
(* Storage and display.                                                    *)

\* What storage holds was found at load or is a member of the enumeration.
WritesAreValid ==
    /\ prefs.stored.theme # hist.load.theme => prefs.stored.theme \in ValidThemes
    /\ prefs.stored.fontSize # hist.load.fontSize =>
           prefs.stored.fontSize \in ValidFontSizes

StoredIsDisplayed ==
    /\ prefs.stored.theme \in ValidThemes => prefs.theme = prefs.stored.theme
    /\ prefs.stored.fontSize \in ValidFontSizes =>
           prefs.fontSize = prefs.stored.fontSize

\* C35 as stated: in every reachable state a valid stored theme is the
\* displayed theme, a valid stored font size is the displayed font size,
\* and every value written to storage is a member of the enumeration.
C35_StoredIsDisplayed == StoredIsDisplayed /\ WritesAreValid

\* C35, amended: every value written to storage is a member of the
\* enumeration, and as long as no setter has applied a value with
\* save = false, a valid stored theme is the displayed theme and a valid
\* stored font size is the displayed font size.
C35_StoredIsDisplayedUnlessUnsaved ==
    /\ WritesAreValid
    /\ ~hist.unsaved => StoredIsDisplayed

\* Witness of C35: after setters, steps, toggles and a system change, none
\* of them with save = false, storage holds values written by the module.
C35_Witness ==
    /\ hist.sets /\ hist.sysChanged /\ hist.rejected /\ ~hist.unsaved
    /\ hist.load = [theme |-> "sepia", fontSize |-> Missing]
    /\ prefs.stored = [theme |-> "dark", fontSize |-> "small"]
    /\ prefs.theme = "dark" /\ prefs.fontSize = "small"

\* C36: initialization and the system-preference listener agree on
\* whether a user theme exists: when storage held no valid theme at load
\* (nothing, or a string outside THEMES), so that the theme came from the
\* system preference, and no setter was called since, a change of the
\* system preference updates the displayed theme.
C36_ListenerAgreesWithInit ==
    (hist.load.theme \notin ValidThemes /\ ~hist.sets) =>
        \A matches \in BOOLEAN :
            onSystemThemeChange(World, matches).prefs.theme = SystemTheme(matches)

\* The other theme.
Opposite(theme) == IF theme = "dark" THEN "light" ELSE "dark"

\* C37: toggleTheme switches light to dark and dark to light and stores
\* the new theme; two toggleTheme calls in a row restore the displayed
\* theme that was in effect before them.
C37_ToggleIsInvolution ==
    LET once == toggleTheme(World)
        twice == toggleTheme(once)
    IN  /\ getTheme(World) \in ValidThemes
        /\ getTheme(once) = Opposite(getTheme(World))
        /\ once.prefs.theme = getTheme(once)
        /\ once.prefs.stored.theme = getTheme(once)
        /\ getTheme(twice) = getTheme(World)
        /\ twice.prefs.theme = prefs.theme
        /\ twice.prefs.stored.theme = prefs.theme

\* Witness of C37: the theme came from the system preference at load, and
\* two toggles in a row have led back to it, now stored.
C37_Witness ==
    /\ hist.toggles = 2
    /\ hist.load.theme = Missing /\ ~hist.sysChanged /\ ~hist.unsaved
    /\ ~prefs.prefersDark
    /\ prefs.theme = "light" /\ prefs.stored.theme = "light"

====
